---- MODULE Spec2Model ----
(***************************************************************************)
(* Model of PINN/lssvr_bratu.py: LS-SVR collocation for the fractional     *)
(* Bratu equation  D^alpha u + lam*exp(u) = 0,  u(0) = u(1) = 0.           *)
(*                                                                         *)
(* Numbers.  A float is modelled as a fixed-point integer: the integer v   *)
(* stands for the real v/Scale.  Products, quotients, square roots, exp    *)
(* and pow round toward zero at that resolution.  The fractional order is  *)
(* carried as a number of quarters: a stands for alpha = a/4, a in 1..4.   *)
(* Arrays are functions on 0..n-1, indexed as in the source.               *)
(***************************************************************************)
EXTENDS Integers, Sequences, FiniteSets, TLC

VARIABLES
    \* ---- one call of solve_lssvr_bratu, then one call of lssvr_predict
    pc,          \* position of the caller / of solve_lssvr_bratu
    alpha_param, \* argument alpha_param (quarters)
    lam,         \* argument lam
    N,           \* argument N, then len(x_grid) when a grid is given
    gamma,       \* argument gamma
    grid_given,  \* x_grid is not None
    x_grid,      \* argument x_grid, then the collocation grid
    K_mat,       \* local K_mat
    D_alpha_K,   \* local D_alpha_K
    alpha,       \* fsolve's current iterate (alpha0 at the start)
    x_trial,     \* coefficient argument of the last residual call
    F,           \* value returned by the last residual call
    nfev,        \* residual calls made so far
    nbuild,      \* calls of build_kernel_matrices made so far
    ier,         \* fsolve's status (0: not returned yet)
    warned,      \* the warning line was printed
    ret,         \* value returned by solve_lssvr_bratu
    u_pred,      \* value returned by lssvr_predict
    x_eval,      \* argument x_eval of lssvr_predict
    gamma_eval,  \* argument gamma of lssvr_predict
    \* ---- direct calls of L1_caputo
    pcL,         \* "idle" | "done"
    u_on_grid,   \* the caller's sample array
    u_at_call,   \* its contents when L1_caputo was entered
    alphaL,      \* argument alpha (quarters)
    xgL_given,   \* x_grid is not None
    xgL,         \* argument x_grid
    D_out,       \* value returned by the last call
    prev         \* input and output of the call before the last one

varsSolve == <<pc, alpha_param, lam, N, gamma, grid_given, x_grid, K_mat,
               D_alpha_K, alpha, x_trial, F, nfev, nbuild, ier, warned, ret,
               u_pred, x_eval, gamma_eval>>
varsL1 == <<pcL, u_on_grid, u_at_call, alphaL, xgL_given, xgL, D_out, prev>>
vars == <<varsSolve, varsL1>>

----------------------------------------------------------------------------
(* Bounds of the model *)

\* resolution of the fixed-point numbers
Scale == 1000
\* largest grid size
MaxN == 3
\* residual calls fsolve may make after the first one
MaxEval == 2

----------------------------------------------------------------------------
(* Fixed-point arithmetic *)

Abs(a) == IF a < 0 THEN -a ELSE a

\* integer quotient rounded toward zero, b > 0
Quot(a, b) == IF a >= 0 THEN a \div b ELSE -((-a) \div b)

\* a * b, rounded toward zero; the product is formed from the integer and the
\* fractional part of |a| so that it stays within 32-bit integers
MulFx(a, b) ==
    LET x == Abs(a)
        y == Abs(b)
        m == (x \div Scale) * y + ((x % Scale) * y) \div Scale
    IN  IF (a < 0) = (b < 0) THEN m ELSE -m

DivFx(a, b) == IF b > 0 THEN Quot(a * Scale, b) ELSE -Quot(a * Scale, -b)

RECURSIVE ISqrtBS(_, _, _)
\* largest r in lo..hi with r*r <= v
ISqrtBS(v, lo, hi) ==
    IF lo >= hi THEN lo
    ELSE LET mid == (lo + hi + 1) \div 2
         IN  IF mid * mid <= v THEN ISqrtBS(v, mid, hi)
                               ELSE ISqrtBS(v, lo, mid - 1)

\* square root of a fixed-point x >= 0
SqrtFx(x) == ISqrtBS(x * Scale, 0, 40000)

RECURSIVE IPowFx(_, _)
\* x^k for a natural k, by repeated multiplication
IPowFx(x, k) == IF k = 0 THEN Scale ELSE MulFx(IPowFx(x, k - 1), x)

\* x ** (q/4) for x >= 0.  IEEE/Python pow: anything to the power 0 is 1,
\* in particular 0 ** 0.0 = 1.0.
PowFx(x, q) == IF q = 0 THEN Scale ELSE SqrtFx(SqrtFx(IPowFx(x, q)))

RECURSIVE ExpFx(_)
\* numpy.exp: halve the argument until |x| <= 1/2, Taylor to order 4, square
ExpFx(x) ==
    IF Abs(x) * 2 > Scale
    THEN LET e == ExpFx(Quot(x, 2)) IN MulFx(e, e)
    ELSE LET t2 == Quot(MulFx(x, x), 2)
             t3 == Quot(MulFx(t2, x), 3)
             t4 == Quot(MulFx(t3, x), 4)
         IN  Scale + x + t2 + t3 + t4

\* scipy.special.gamma(2 - alpha) at alpha = a/4
GammaFx(a) ==
    CASE a = 1 -> Quot(9191 * Scale, 10000)
      [] a = 2 -> Quot(8862 * Scale, 10000)
      [] a = 3 -> Quot(9064 * Scale, 10000)
      [] a = 4 -> Scale

RECURSIVE SumTo(_, _)
\* t[0] + ... + t[n-1]
SumTo(t, n) == IF n <= 0 THEN 0 ELSE SumTo(t, n - 1) + t[n - 1]

Size(a) == Cardinality(DOMAIN a)

\* M @ v for a matrix M (M[j][i]: row j, column i) and a vector v
MatVec(M, v) ==
    [j \in DOMAIN M |-> SumTo([i \in DOMAIN v |-> MulFx(M[j][i], v[i])], Size(v))]

\* numpy.zeros(n)
Zeros(n) == [i \in 0..(n - 1) |-> 0]

\* a Python list as an array
Arr(s) == [i \in 0..(Len(s) - 1) |-> s[i + 1]]

----------------------------------------------------------------------------
(* L1 scheme for the Caputo derivative *)

\* the weight taken one step too far back in the history
L1_diff_shifted(k, a) == PowFx((k + 1) * Scale, 4 - a) - PowFx(k * Scale, 4 - a)

\* (i - j) ** (1 - alpha) - (i - j - 1) ** (1 - alpha), with k = i - j
L1_diff(k, a) == PowFx(k * Scale, 4 - a) - PowFx((k - 1) * Scale, 4 - a)

RECURSIVE L1_inner(_, _, _, _)
\* s after the passes j = 0 .. jn-1 of the inner loop for row i
L1_inner(u, a, i, jn) ==
    IF jn = 0 THEN 0
    ELSE LET j == jn - 1
         IN  L1_inner(u, a, i, j) + MulFx(u[j + 1] - u[j], L1_diff(i - j, a))

\* the grid spacing h.  With n = 1 the numpy quotient 0.0/0 is nan and is
\* never used: the loop over range(1, n) is empty.
L1_h(n, given, xg) ==
    IF given THEN Quot(xg[n - 1] - xg[0], n - 1) ELSE Quot(Scale, n - 1)

L1_coeff(a, h) == DivFx(Scale, MulFx(GammaFx(a), PowFx(h, a)))

L1_caputo(u, a, given, xg) ==
    LET n == Size(u)
        coeff == L1_coeff(a, L1_h(n, given, xg))
    IN  [i \in 0..(n - 1) |->
            IF i = 0 THEN 0 ELSE MulFx(coeff, L1_inner(u, a, i, i))]

----------------------------------------------------------------------------
(* Kernel matrices, residual, predictor *)

\* exp(-gamma * (x - y) ** 2)
KernelEntry(x, y, g) == ExpFx(MulFx(-g, MulFx(x - y, x - y)))

\* each derivative column stored as a row of D
build_kernel_matrices_rows(x, a, g) ==
    LET n == Size(x)
        K == [j \in 0..(n - 1) |-> [i \in 0..(n - 1) |-> KernelEntry(x[j], x[i], g)]]
        col == [i \in 0..(n - 1) |->
                   L1_caputo([r \in 0..(n - 1) |-> K[r][i]], a, TRUE, x)]
    IN  [K_mat |-> K, D_alpha_K |-> col]

build_kernel_matrices(x, a, g) ==
    LET n == Size(x)
        K == [j \in 0..(n - 1) |-> [i \in 0..(n - 1) |-> KernelEntry(x[j], x[i], g)]]
        col == [i \in 0..(n - 1) |->
                   L1_caputo([r \in 0..(n - 1) |-> K[r][i]], a, TRUE, x)]
        D == [j \in 0..(n - 1) |-> [i \in 0..(n - 1) |-> col[i][j]]]
    IN  [K_mat |-> K, D_alpha_K |-> D]

\* the interior loop run over range(1, N): it overwrites the last boundary row
lssvr_bratu_residual_long_loop(al, K, D, lm, n) ==
    LET u == MatVec(K, al)
        D_alpha_u == MatVec(D, al)
    IN  [i \in 0..(n - 1) |->
            IF 1 <= i THEN D_alpha_u[i] + MulFx(lm, ExpFx(u[i])) ELSE u[0]]

\* defined for n >= 1; with n = 0 the store F[0] = u[0] raises IndexError
lssvr_bratu_residual(al, K, D, lm, n) ==
    LET u == MatVec(K, al)
        D_alpha_u == MatVec(D, al)
        F0 == Zeros(n)
        F1 == [F0 EXCEPT ![0] = u[0]]
        F2 == [F1 EXCEPT ![n - 1] = u[n - 1]]
    IN  [i \in 0..(n - 1) |->
            IF 1 <= i /\ i <= n - 2
            THEN D_alpha_u[i] + MulFx(lm, ExpFx(u[i]))
            ELSE F2[i]]

\* the kernel width argument dropped: the default gamma = 10.0 is used
lssvr_predict_default_gamma(xe, x_colloc, al, g) ==
    LET K_eval == [m \in DOMAIN xe |->
                      [i \in DOMAIN x_colloc |->
                          KernelEntry(xe[m], x_colloc[i], 10 * Scale)]]
    IN  MatVec(K_eval, al)

lssvr_predict(xe, x_colloc, al, g) ==
    LET K_eval == [m \in DOMAIN xe |->
                      [i \in DOMAIN x_colloc |-> KernelEntry(xe[m], x_colloc[i], g)]]
    IN  MatVec(K_eval, al)

\* numpy.linspace(0, 1, n): multiples of the step, the last point set to 1
linspace01(n) ==
    [k \in 0..(n - 1) |->
        IF n = 1 THEN 0
        ELSE IF k = n - 1 THEN Scale ELSE k * Quot(Scale, n - 1)]

\* an initial guess of ones
alpha0_ones(n) == [i \in 0..(n - 1) |-> Scale]

\* the initial guess of the solver
alpha0(n) == Zeros(n)

----------------------------------------------------------------------------
(* Inputs *)

\* fractional orders 1/4, 1/2, 3/4, 1
Orders == 1..4
\* lam = 0 and lam = 1
Lams == {0, Scale}
\* gamma = 2 and gamma = -1
Gammas == <<2 * Scale, -Scale>>
\* explicit grids: empty, one point, uniform, not uniform
ExplicitGrids ==
    {Arr(<<>>), Arr(<<0>>), Arr(<<0, Scale>>),
     Arr(<<0, Quot(Scale, 2), Scale>>), Arr(<<0, Quot(Scale, 4), Scale>>)}
\* coefficient values the root-finder tries
TrialVals == {-Scale, 0, Scale}
\* statuses fsolve returns: 1 converged, 2 call limit, 5 no progress
Statuses == {1, 2, 5}
\* sample values handed to L1_caputo directly
SampleVals == {-Scale, 0, 2 * Scale}

NoArr == Arr(<<>>)

----------------------------------------------------------------------------
(* solve_lssvr_bratu and lssvr_predict *)

InitL1Idle ==
    /\ pcL = "off" /\ u_on_grid = NoArr /\ u_at_call = NoArr /\ alphaL = 1
    /\ xgL_given = FALSE /\ xgL = NoArr /\ D_out = NoArr
    /\ prev = [u |-> NoArr, D |-> NoArr]

\* the arguments of one call; an explicit grid overrides N
Init ==
    /\ pc = "call"
    /\ alpha_param \in Orders
    /\ lam \in Lams
    /\ \E k \in DOMAIN Gammas : gamma = Gammas[k]
    /\ grid_given \in BOOLEAN
    /\ N \in 1..MaxN
    /\ IF grid_given THEN x_grid \in ExplicitGrids ELSE x_grid = NoArr
    /\ K_mat = NoArr /\ D_alpha_K = NoArr /\ alpha = NoArr
    /\ x_trial = NoArr /\ F = NoArr
    /\ nfev = 0 /\ nbuild = 0 /\ ier = 0 /\ warned = FALSE
    /\ ret = [x_grid |-> NoArr]
    /\ u_pred = NoArr /\ x_eval = NoArr /\ gamma_eval = 0
    /\ InitL1Idle

\* lines 111-118: the grid, the kernel matrices, the initial guess
SolveEnter ==
    /\ pc = "call"
    /\ LET x == IF grid_given THEN x_grid ELSE linspace01(N)
           n == IF grid_given THEN Size(x_grid) ELSE N
           KD == build_kernel_matrices(x, alpha_param, gamma)
       IN  /\ x_grid' = x
           /\ N' = n
           /\ K_mat' = KD.K_mat
           /\ D_alpha_K' = KD.D_alpha_K
           /\ alpha' = alpha0(n)
    /\ nbuild' = nbuild + 1
    /\ pc' = "fsolve"
    /\ UNCHANGED <<alpha_param, lam, gamma, grid_given, x_trial, F, nfev, ier,
                   warned, ret, u_pred, x_eval, gamma_eval, varsL1>>

\* fsolve's first call of the residual, at the initial guess; on an empty
\* system the residual raises IndexError, which leaves solve_lssvr_bratu
FsolveFirst ==
    /\ pc = "fsolve"
    /\ IF N = 0
       THEN /\ pc' = "raised"
            /\ UNCHANGED <<x_trial, F, nfev>>
       ELSE /\ pc' = "iterating"
            /\ x_trial' = alpha
            /\ F' = lssvr_bratu_residual(alpha, K_mat, D_alpha_K, lam, N)
            /\ nfev' = nfev + 1
    /\ UNCHANGED <<alpha_param, lam, N, gamma, grid_given, x_grid, K_mat,
                   D_alpha_K, alpha, nbuild, ier, warned, ret, u_pred, x_eval,
                   gamma_eval, varsL1>>

\* squared Euclidean norm
Norm2(v) == SumTo([i \in DOMAIN v |-> MulFx(v[i], v[i])], Size(v))

\* the residual filling row 0 of K_mat (F a view of it) instead of a fresh array
FsolveEval_view(k, v, accept) ==
    /\ pc = "iterating"
    /\ nfev <= MaxEval
    /\ LET x == [alpha EXCEPT ![k] = v]
           Fx == lssvr_bratu_residual(x, K_mat, D_alpha_K, lam, N)
           Fc == lssvr_bratu_residual(alpha, K_mat, D_alpha_K, lam, N)
       IN  /\ x_trial' = x
           /\ F' = Fx
           /\ K_mat' = [K_mat EXCEPT ![0] = Fx]
           /\ alpha' = IF accept /\ Norm2(Fx) < Norm2(Fc) THEN x ELSE alpha
    /\ nfev' = nfev + 1
    /\ UNCHANGED <<pc, alpha_param, lam, N, gamma, grid_given, x_grid,
                   D_alpha_K, nbuild, ier, warned, ret, u_pred, x_eval,
                   gamma_eval, varsL1>>

\* a later call of the residual by fsolve, at a trial point x = the iterate
\* with coordinate k set to v (a Jacobian column or a trial step); the
\* iterate moves only to a point whose residual norm is smaller
FsolveEval(k, v, accept) ==
    /\ pc = "iterating"
    /\ nfev <= MaxEval
    /\ LET x == [alpha EXCEPT ![k] = v]
           Fx == lssvr_bratu_residual(x, K_mat, D_alpha_K, lam, N)
           Fc == lssvr_bratu_residual(alpha, K_mat, D_alpha_K, lam, N)
       IN  /\ x_trial' = x
           /\ F' = Fx
           /\ alpha' = IF accept /\ Norm2(Fx) < Norm2(Fc) THEN x ELSE alpha
    /\ nfev' = nfev + 1
    /\ UNCHANGED <<pc, alpha_param, lam, N, gamma, grid_given, x_grid, K_mat,
                   D_alpha_K, nbuild, ier, warned, ret, u_pred, x_eval,
                   gamma_eval, varsL1>>

\* fsolve returns (status 1 when the residual of the iterate is zero), then
\* lines 124-127: the warning and the returned tuple; the elapsed time is
\* counted in residual calls
SolveReturn(status) ==
    /\ pc = "iterating"
    /\ lssvr_bratu_residual(alpha, K_mat, D_alpha_K, lam, N) = Zeros(N) => status = 1
    /\ ier' = status
    /\ warned' = (status # 1)
    /\ ret' = [x_grid |-> x_grid, alpha |-> alpha, K_mat |-> K_mat,
               D_alpha_K |-> D_alpha_K, wall_time |-> nfev]
    /\ pc' = "returned"
    /\ UNCHANGED <<alpha_param, lam, N, gamma, grid_given, x_grid, K_mat,
                   D_alpha_K, alpha, x_trial, F, nfev, nbuild, u_pred, x_eval,
                   gamma_eval, varsL1>>

\* the caller evaluates the expansion (main, lines 151 and 167)
Predict(xe, g) ==
    /\ pc = "returned"
    /\ x_eval' = xe
    /\ gamma_eval' = g
    /\ u_pred' = lssvr_predict(xe, ret.x_grid, ret.alpha, g)
    /\ pc' = "predicted"
    /\ UNCHANGED <<alpha_param, lam, N, gamma, grid_given, x_grid, K_mat,
                   D_alpha_K, alpha, x_trial, F, nfev, nbuild, ier, warned, ret,
                   varsL1>>

Next ==
    \/ SolveEnter
    \/ FsolveFirst
    \/ \E k \in 0..(N - 1), v \in TrialVals, accept \in BOOLEAN :
          FsolveEval(k, v, accept)
    \/ \E status \in Statuses : SolveReturn(status)
    \/ \E xe \in {x_grid, Arr(<<Quot(Scale, 2)>>)}, g \in {gamma, 10 * Scale} :
          Predict(xe, g)

Spec == Init /\ [][Next]_vars

----------------------------------------------------------------------------
(* Direct calls of L1_caputo *)

InitSolveOff ==
    /\ pc = "off" /\ alpha_param = 1 /\ lam = 0 /\ N = 0 /\ gamma = 0
    /\ grid_given = FALSE /\ x_grid = NoArr /\ K_mat = NoArr
    /\ D_alpha_K = NoArr /\ alpha = NoArr /\ x_trial = NoArr /\ F = NoArr
    /\ nfev = 0 /\ nbuild = 0 /\ ier = 0 /\ warned = FALSE
    /\ ret = [x_grid |-> NoArr]
    /\ u_pred = NoArr /\ x_eval = NoArr /\ gamma_eval = 0

\* uniform grids of n points: linspace(0, 1, n), and spacing 1/4 from 0
UniformGrids(n) == {linspace01(n), [k \in 0..(n - 1) |-> k * Quot(Scale, 4)]}

\* the arguments of a direct call, on at least two samples
InitL1 ==
    /\ InitSolveOff
    /\ pcL = "idle"
    /\ \E n \in 2..MaxN :
          /\ u_on_grid \in [0..(n - 1) -> SampleVals]
          /\ xgL_given \in BOOLEAN
          /\ IF xgL_given THEN xgL \in UniformGrids(n) ELSE xgL = NoArr
    /\ u_at_call = u_on_grid
    /\ alphaL \in Orders
    /\ D_out = NoArr
    /\ prev = [u |-> NoArr, D |-> NoArr]

\* one call D = L1_caputo(u_on_grid, alpha, x_grid); the argument is only read
CallL1 ==
    /\ pcL = "idle"
    /\ u_at_call' = u_on_grid
    /\ D_out' = L1_caputo(u_on_grid, alphaL, xgL_given, xgL)
    /\ pcL' = "done"
    /\ UNCHANGED <<u_on_grid, alphaL, xgL_given, xgL, prev, varsSolve>>

\* the caller changes one sample and keeps the last result for comparison
Rewrite(k, v) ==
    /\ pcL = "done"
    /\ u_on_grid[k] # v
    /\ prev' = [u |-> u_on_grid, D |-> D_out]
    /\ u_on_grid' = [u_on_grid EXCEPT ![k] = v]
    /\ pcL' = "idle"
    /\ UNCHANGED <<u_at_call, alphaL, xgL_given, xgL, D_out, varsSolve>>

NextL1 ==
    \/ CallL1
    \/ \E k \in DOMAIN u_on_grid, v \in SampleVals : Rewrite(k, v)

SpecL1 == InitL1 /\ [][NextL1]_vars

----------------------------------------------------------------------------
(* The L1 formula as the specification states it *)

\* w(k) = k^(1-alpha) - (k-1)^(1-alpha), for alpha in (0,1)
Weight(k, a) == PowFx(k * Scale, 4 - a) - PowFx((k - 1) * Scale, 4 - a)

\* c = 1/(Gamma(2-alpha) * h^alpha)
CaputoC(a, h) == DivFx(Scale, MulFx(GammaFx(a), PowFx(h, a)))

RECURSIVE HistorySum(_, _, _, _)
\* sum over j = j0 .. i-1 of (u[j+1] - u[j]) * w(i-j)
HistorySum(u, a, i, j0) ==
    IF j0 >= i THEN 0
    ELSE MulFx(u[j0 + 1] - u[j0], Weight(i - j0, a)) + HistorySum(u, a, i, j0 + 1)

\* the Fractional Derivative Operator at index i, on a grid of spacing h
Caputo(u, a, h, i) == IF i = 0 THEN 0 ELSE MulFx(CaputoC(a, h), HistorySum(u, a, i, 0))

\* the spacing of the grid a direct call works on
SpacingL == IF xgL_given THEN xgL[1] - xgL[0] ELSE Quot(Scale, Size(u_on_grid) - 1)

\* C3: at alpha = 1 the operator is the first-order difference
\* D[i] = (u[i] - u[i-1]) / h for every i >= 1.
C3_FirstDifferenceAtOne ==
    (pcL = "done" /\ alphaL = 4) =>
        \A i \in 1..(Size(u_on_grid) - 1) :
            D_out[i] = DivFx(u_on_grid[i] - u_on_grid[i - 1], SpacingL)

\* C4: for alpha in (0,1) and N >= 2, L1_caputo returns a length-N sequence
\* with D[0] = 0 and D[i] = c * sum_{j<i} (u[j+1]-u[j]) * w(i-j); D[i] does not
\* change when only samples after i change; the input is not modified.
C4_L1Formula ==
    (pcL = "done" /\ alphaL < 4) =>
        LET n == Size(u_on_grid)
        IN  /\ DOMAIN D_out = 0..(n - 1)
            /\ D_out[0] = 0
            /\ \A i \in 1..(n - 1) : D_out[i] = Caputo(u_on_grid, alphaL, SpacingL, i)
            /\ u_on_grid = u_at_call
            /\ prev.u # NoArr =>
                  \A i \in 0..(n - 1) :
                      (\A m \in 0..i : prev.u[m] = u_on_grid[m]) => D_out[i] = prev.D[i]

C4_Witness ==
    /\ pcL = "done" /\ alphaL = 2 /\ Size(u_on_grid) = 3
    /\ prev.u # NoArr /\ prev.u[2] # u_on_grid[2]
    /\ D_out[1] # 0 /\ D_out[2] # prev.D[2] /\ D_out[1] = prev.D[1]

----------------------------------------------------------------------------
(* Claims about one solve *)

Solving == pc \in {"iterating", "returned", "predicted"}
Returned == pc \in {"returned", "predicted"}

\* the number of grid points the call asks for
RequestedN == IF grid_given THEN Size(x_grid) ELSE N

\* C1: a solve asked for fewer than 2 grid points fails validation before any
\* kernel matrix is built: the builder and the solver are never reached and
\* nothing is returned.
C1_SmallNRejected ==
    RequestedN < 2 => (nbuild = 0 /\ nfev = 0 /\ ~Returned)

\* C2: when the root-finder reports a status other than success, the returned
\* value carries that status and the message.
C2_FailureIndicatorReturned ==
    (Returned /\ ier # 1) => ("ier" \in DOMAIN ret /\ "msg" \in DOMAIN ret)

RECURSIVE RowDot(_, _, _)
\* row[k]*v[k] + ... + row[n-1]*v[n-1]
RowDot(row, v, k) ==
    IF k >= Size(v) THEN 0 ELSE MulFx(row[k], v[k]) + RowDot(row, v, k + 1)

\* C5: for N >= 2 the residual is a length-N vector with F[0] = (K a)[0],
\* F[N-1] = (K a)[N-1] and F[i] = (D a)[i] + lam * exp((K a)[i]) for
\* 1 <= i <= N-2.
C5_ResidualRows ==
    (Solving /\ N >= 2) =>
        /\ DOMAIN F = 0..(N - 1)
        /\ F[0] = RowDot(K_mat[0], x_trial, 0)
        /\ F[N - 1] = RowDot(K_mat[N - 1], x_trial, 0)
        /\ \A i \in 1..(N - 2) :
              F[i] = RowDot(D_alpha_K[i], x_trial, 0)
                       + MulFx(lam, ExpFx(RowDot(K_mat[i], x_trial, 0)))

C5_Witness ==
    /\ pc = "iterating" /\ N = 3 /\ lam # 0 /\ alpha_param < 4
    /\ x_trial[1] # 0 /\ x_trial[2] # 0
    /\ F[1] # 0 /\ F[2] # 0 /\ F[2] # F[1]

\* the grid is not uniformly spaced and strictly increasing (a rounding unit
\* per point is allowed)
NotUniform(x) ==
    \/ \E i \in 1..(Size(x) - 1) : x[i] <= x[i - 1]
    \/ \E i \in 1..(Size(x) - 2) :
          Abs((x[i + 1] - x[i]) - (x[i] - x[i - 1])) > Size(x)

InvalidConfig == gamma <= 0 \/ (grid_given /\ NotUniform(x_grid))

\* C6: an invalid configuration other than N < 2 (a kernel width gamma <= 0,
\* or an explicit grid that is not uniformly spaced and strictly increasing)
\* is rejected before K or D is computed.
C6_InvalidConfigRejected ==
    (RequestedN >= 2 /\ InvalidConfig) => (nbuild = 0 /\ nfev = 0 /\ ~Returned)

\* the mean spacing of a grid
Spacing(x) == Quot(x[Size(x) - 1] - x[0], Size(x) - 1)

\* D holds, column by column, the operator applied to the columns of K
ColumnsDerived(x, a, K, D) ==
    \A i \in DOMAIN x : \A j \in DOMAIN x :
        D[j][i] = Caputo([r \in DOMAIN x |-> K[r][i]], a, Spacing(x), j)

\* C7: for gamma > 0 the kernel matrix returned by the builder is N x N,
\* symmetric, with unit diagonal, and each column of D is the operator applied
\* to that column of K.
C7_KernelMatrix ==
    (pc = "fsolve" /\ gamma > 0) =>
        /\ DOMAIN K_mat = 0..(N - 1)
        /\ \A j \in 0..(N - 1) : DOMAIN K_mat[j] = 0..(N - 1)
        /\ \A i \in 0..(N - 1) : K_mat[i][i] = Scale
        /\ \A i \in 0..(N - 1) : \A j \in 0..(N - 1) : K_mat[i][j] = K_mat[j][i]
        /\ ColumnsDerived(x_grid, alpha_param, K_mat, D_alpha_K)

C7_Witness ==
    /\ pc = "fsolve" /\ gamma > 0 /\ N = 3 /\ alpha_param < 4
    /\ K_mat[0][1] # Scale /\ K_mat[0][1] # 0
    /\ D_alpha_K[1][0] # D_alpha_K[0][1] /\ D_alpha_K[2][1] # 0

\* C8: the predictor at the collocation points, with the gamma that built K,
\* equals K a entry by entry; so if F[0] = F[N-1] = 0 the predicted values at
\* the first and last grid points are 0.
C8_PredictOnGrid ==
    (pc = "predicted" /\ x_eval = ret.x_grid /\ gamma_eval = gamma) =>
        /\ DOMAIN u_pred = 0..(N - 1)
        /\ \A j \in 0..(N - 1) : u_pred[j] = RowDot(ret.K_mat[j], ret.alpha, 0)
        /\ N >= 1 =>
              LET Fa == lssvr_bratu_residual(ret.alpha, ret.K_mat, ret.D_alpha_K, lam, N)
              IN  (Fa[0] = 0 /\ Fa[N - 1] = 0) => (u_pred[0] = 0 /\ u_pred[N - 1] = 0)

C8_Witness ==
    /\ pc = "predicted" /\ x_eval = ret.x_grid /\ gamma_eval = gamma
    /\ N = 3 /\ gamma > 0 /\ ret.alpha # Zeros(N) /\ u_pred[1] # 0

\* C9: with lam = 0 the solve starts at the zero vector, where every residual
\* entry is 0, and returns it: u = 0 at every grid and predicted point.
C9_ZeroSolution ==
    (lam = 0 /\ N >= 2 /\ gamma > 0) =>
        /\ Solving => alpha = Zeros(N)
        /\ (pc = "iterating" /\ nfev = 1) => F = Zeros(N)
        /\ Returned =>
              /\ ier = 1
              /\ ret.alpha = Zeros(N)
              /\ \A j \in 0..(N - 1) : RowDot(ret.K_mat[j], ret.alpha, 0) = 0
        /\ pc = "predicted" => \A m \in DOMAIN u_pred : u_pred[m] = 0

C9_Witness ==
    /\ pc = "predicted" /\ lam = 0 /\ N = 3 /\ gamma > 0 /\ alpha_param < 4
    /\ nfev > 1 /\ x_trial # Zeros(N) /\ F[1] # 0
    /\ ret.alpha = Zeros(N) /\ Size(u_pred) = 3

\* C10: K, D and the grid are built once, before the first residual call; no
\* step from then on (a residual call, the return) changes them, and a
\* residual call leaves its coefficient argument as it was; the K and D
\* returned are the ones built at the start.
C10_BuiltOnceAndFrozen ==
    /\ [](nfev > 0 => nbuild = 1)
    /\ [][(pc \in {"fsolve", "iterating"}) =>
            /\ x_grid' = x_grid /\ K_mat' = K_mat /\ D_alpha_K' = D_alpha_K
            /\ nbuild' = nbuild
            /\ (nfev' = nfev + 1 /\ x_trial' = alpha) => alpha' = alpha]_vars
    /\ [](Returned =>
            /\ ret.x_grid = x_grid /\ ret.K_mat = K_mat /\ ret.D_alpha_K = D_alpha_K)

C10_Witness ==
    /\ pc = "returned" /\ N = 3 /\ nfev = 3 /\ nbuild = 1
    /\ x_trial # Zeros(N) /\ ret.K_mat[0][1] # 0 /\ ret.D_alpha_K[1][0] # 0

====
